---- MODULE Spec2Model ----
(***************************************************************************)
(* A model of the polishing pipeline of Autopolish: the path sequencer,    *)
(* the path planner, the PolishingCore facade (src/Core/Core.py) and the   *)
(* RAPID generator (src/Generators/Generators.py).                         *)
(*                                                                         *)
(* Numbers.  Coordinates are exact rationals kept as integers:             *)
(*   - a vertex coordinate is an integer count of fifths of a millimetre   *)
(*     (25.4 = 127/5, so an inch file stays exact);                        *)
(*   - the planner's band and scan-line arithmetic is done in twentieths   *)
(*     of a millimetre (tool_radius * 0.7 = 7*d/20, d * 0.3 = 6*d/20);     *)
(*   - stepover ratios are given in tenths.                                *)
(* Floating-point rounding is not modelled.                                *)
(***************************************************************************)
EXTENDS Integers, Sequences, FiniteSets, TLC

VARIABLES
    current_mesh,     \* PolishingCore.current_mesh: None or a mesh
    mesh_metadata,    \* PolishingCore.mesh_metadata
    generated_paths,  \* PolishingCore.generated_paths: stage -> segments
    clock,            \* the wall clock datetime.now() reads, in seconds
    last              \* the last call made: its inputs and what it returned or raised

vars == <<current_mesh, mesh_metadata, generated_paths, clock, last>>

\* Python's None
None == [none |-> TRUE]

----------------------------------------------------------------------------
(* Bounds of the model *)

MaxCoord == 1       \* sequencer inputs: X ranges over 0..MaxCoord
MaxSeqLen == 4      \* sequencer inputs: point lists of up to this length
MaxClock == 2       \* seconds the clock may advance
NBig == 12          \* vertices of the largest mesh
MaxMeshVerts == 2   \* planner inputs: every mesh of up to this many grid vertices
MaxSegs == 2        \* enricher inputs: raw segments per stage
MaxSegPoints == 2   \* enricher inputs: points per raw segment

----------------------------------------------------------------------------
(* Small helpers *)

Range(s) == {s[i] : i \in DOMAIN s}

SeqsUpTo(S, n) == UNION {[1..k -> S] : k \in 0..n}

Count(s, x) == Cardinality({i \in DOMAIN s : s[i] = x})

SameMultiset(s, t) ==
    /\ Len(s) = Len(t)
    /\ \A x \in Range(s) \cup Range(t) : Count(s, x) = Count(t, x)

IsPermutationOf(idx, n) ==
    /\ Len(idx) = n
    /\ \A i \in 1..n : Count(idx, i) = 1

----------------------------------------------------------------------------
(* PolishingMathematicalModel.optimize_path_sequence                       *)

\* float('inf'): squared distances are >= 0, so -1 stands for infinity.
Inf == -1

\* np.linalg.norm(a - b), squared (the square root is monotone).
Dist2(a, b) ==
    (a[1] - b[1]) * (a[1] - b[1]) + (a[2] - b[2]) * (a[2] - b[2])
        + (a[3] - b[3]) * (a[3] - b[3])

DistLessOrEqual(d, m) == m = Inf \/ d <= m

\* dist < min_dist
DistLess(d, m) == m = Inf \/ d < m

\* The inner loop "for i in range(len(points))" from position i on: the
\* index chosen as next_idx (0 stands for Python's -1, none found).
RECURSIVE ScanNearest(_, _, _, _, _, _)
ScanNearest(points, visited, current_idx, i, min_dist, next_idx) ==
    IF i > Len(points) THEN next_idx
    ELSE IF ~visited[i] /\ DistLess(Dist2(points[current_idx], points[i]), min_dist)
         THEN ScanNearest(points, visited, current_idx, i + 1,
                          Dist2(points[current_idx], points[i]), i)
         ELSE ScanNearest(points, visited, current_idx, i + 1, min_dist, next_idx)

MarkVisitedSkipped(visited, idx) == visited

\* visited[next_idx] = True
MarkVisited(visited, idx) == [visited EXCEPT ![idx] = TRUE]

\* The outer loop "for _ in range(len(points) - 1)", `rounds` rounds to go.
RECURSIVE GreedyRounds(_, _, _, _, _)
GreedyRounds(points, visited, current_idx, optimized_indices, rounds) ==
    IF rounds = 0 THEN optimized_indices
    ELSE LET next_idx == ScanNearest(points, visited, current_idx, 1, Inf, 0)
         IN  IF next_idx # 0
             THEN GreedyRounds(points, MarkVisited(visited, next_idx), next_idx,
                               Append(optimized_indices, next_idx), rounds - 1)
             ELSE GreedyRounds(points, visited, current_idx,
                               optimized_indices, rounds - 1)

OptimizedIndicesFromLast(points) ==
    GreedyRounds(points,
                 MarkVisited([i \in 1..Len(points) |-> FALSE], Len(points)),
                 Len(points), <<Len(points)>>, Len(points) - 1)

\* optimized_indices at the return statement (1-based), for len(points) > 2.
OptimizedIndices(points) ==
    GreedyRounds(points,
                 MarkVisited([i \in 1..Len(points) |-> FALSE], 1),
                 1, <<1>>, Len(points) - 1)

OptimizePathSequence(points) ==
    IF Len(points) <= 2 THEN points
    ELSE LET idx == OptimizedIndices(points)
         IN  [k \in 1..Len(idx) |-> points[idx[k]]]

\* Autopolish1.0.py's older copy of the same routine (it appends the points
\* themselves instead of their indices).
OptimizePathLength(points) ==
    IF Len(points) <= 2 THEN points
    ELSE LET idx == OptimizedIndices(points)
         IN  [k \in 1..Len(idx) |-> points[idx[k]]]

----------------------------------------------------------------------------
(* Python dictionaries: functions whose domain is the set of keys present  *)

Get(d, k, default) == IF k \in DOMAIN d THEN d[k] ELSE default

EmptyDict == [k \in {} |-> None]

----------------------------------------------------------------------------
(* NXSTLProcessor: STL files, their headers, loading                        *)
(*                                                                         *)
(* A file is [exists, parses, header, verts, nfaces]: header is the text of *)
(* its first 80 bytes as a sequence of characters, verts the vertex        *)
(* positions trimesh.load reads from it (whole millimetres), parses is     *)
(* FALSE when trimesh.load raises on it.  TRIMESH_AVAILABLE is taken TRUE. *)

LowerLetters == <<"a","b","c","d","e","f","g","h","i","j","k","l","m",
                  "n","o","p","q","r","s","t","u","v","w","x","y","z">>
UpperLetters == <<"A","B","C","D","E","F","G","H","I","J","K","L","M",
                  "N","O","P","Q","R","S","T","U","V","W","X","Y","Z">>

\* str.upper(), one character
UpperChar(c) ==
    IF \E i \in DOMAIN LowerLetters : LowerLetters[i] = c
    THEN UpperLetters[CHOOSE i \in DOMAIN LowerLetters : LowerLetters[i] = c]
    ELSE c

\* header_str.upper()
Upper(str) == [i \in DOMAIN str |-> UpperChar(str[i])]

\* sub in str
Contains(str, sub) ==
    \E i \in 0..(Len(str) - Len(sub)) : SubSeq(str, i + 1, i + Len(sub)) = sub

\* nx_indicators = ['NX', 'Siemens', 'UG', 'Unigraphics', 'UNITS=', 'CREATED=']
NxIndicators ==
    { <<"N","X">>, <<"S","i","e","m","e","n","s">>, <<"U","G">>,
      <<"U","n","i","g","r","a","p","h","i","c","s">>,
      <<"U","N","I","T","S","=">>, <<"C","R","E","A","T","E","D","=">> }

\* read_metadata, the fields the pipeline reads (file_size, nx_specific,
\* creation_date and part_name are carried nowhere and are left out).
ReadMetadata(file) ==
    LET header_str == file.header
        is_nx == \E ind \in NxIndicators : Contains(header_str, ind)
    IN  IF ~is_nx
        THEN [is_nx |-> FALSE, units |-> "mm", original_format |-> "STL"]
        ELSE [is_nx |-> TRUE,
              units |-> IF Contains(Upper(header_str), <<"M","M">>) THEN "mm"
                        ELSE IF Contains(Upper(header_str), <<"I","N">>) THEN "inch"
                        ELSE "mm",
              original_format |-> "NX STL"]

\* Vertex coordinates are kept in fifths of a millimetre.
UnitDen == 5
\* mesh.vertices *= 25.4  (25.4 = 127/5)
InchNum == 127
\* mesh.vertices *= 1000
MetreFactor == 1000

ScaleVerts(verts, factor) ==
    [i \in DOMAIN verts |-> <<verts[i][1] * factor, verts[i][2] * factor,
                              verts[i][3] * factor>>]

\* load_mesh for a file trimesh.load can read: the mesh it returns.
LoadMesh(file, force_nx_processing) ==
    LET metadata == ReadMetadata(file)
        raw == ScaleVerts(file.verts, UnitDen)      \* trimesh.load(file_path)
        vertices ==
            IF force_nx_processing \/ metadata.is_nx
            THEN IF metadata.units = "inch" THEN ScaleVerts(file.verts, InchNum)
                 ELSE IF metadata.units = "m"
                      THEN ScaleVerts(file.verts, UnitDen * MetreFactor)
                      ELSE raw
            ELSE raw
    IN  [vertices |-> vertices, nfaces |-> file.nfaces, metadata |-> metadata]

----------------------------------------------------------------------------
(* AdvancedPathPlanner                                                      *)
(*                                                                         *)
(* A call's outcome is [err, paths]: err is "none" or the exception class  *)
(* raised.  An operator returns the SET of outcomes the call can have:     *)
(* np.argsort (quicksort) orders equal keys in an unspecified way, and     *)
(* np.arange with step 0 fails differently across numpy versions.          *)

Ok(paths) == [err |-> "none", paths |-> paths]
Raises(cls) == [err |-> cls, paths |-> <<>>]

\* k_neighbors=10
K_NEIGHBORS == 10

\* A vertex coordinate (fifths of a millimetre) in twentieths.
ToTw(c) == 4 * c

MinOf(S) == CHOOSE x \in S : \A y \in S : x <= y
MaxOf(S) == CHOOSE x \in S : \A y \in S : x >= y

Column(vertices, axis) == {vertices[i][axis] : i \in DOMAIN vertices}

\* calculate_surface_curvature(mesh) as the adaptive planner uses it: TRUE
\* when it raises.  tree.query(point, k=k_neighbors + 1) marks each missing
\* neighbour with index n, and vertices[indices[1:]] then raises IndexError.
CurvatureRaises(vertices, k_neighbors) ==
    Len(vertices) > 0 /\ Len(vertices) < k_neighbors + 1

\* ceil(d / step) for step > 0
CeilDiv(d, step) == -((-d) \div step)

\* len(np.arange(start, stop, step)) for stop >= start and step # 0
ArangeLen(start, stop, step) ==
    IF step < 0 THEN 0
    ELSE IF CeilDiv(stop - start, step) < 0 THEN 0 ELSE CeilDiv(stop - start, step)

\* What np.arange(start, stop, 0) does: (stop - start) / 0 is inf, or nan
\* when stop = start; the length computation raises ValueError or
\* OverflowError by numpy version, and old versions cast nan to an empty range.
ArangeZeroStep(start, stop) ==
    {Raises("ValueError"), Raises("OverflowError")}
        \cup (IF stop = start THEN {Ok(<<>>)} ELSE {})

\* self.vertices[mask] for the band z <= Z < z + step_size
BandPoints(vertices, z, step_size) ==
    SelectSeq(vertices, LAMBDA v : ToTw(v[3]) >= z /\ ToTw(v[3]) < z + step_size)

\* The rounds k of "for z in np.arange(min_z, max_z, step_size)" that do not
\* "continue": those whose band holds a vertex.
AdaptiveRounds(vertices, min_z, step_size, n) ==
    {k \in 0..(n - 1) : BandPoints(vertices, min_z + k * step_size, step_size) # <<>>}

\* The paths appended in the rounds ks, in increasing order of z.
RECURSIVE AdaptiveLayers(_, _, _, _)
AdaptiveLayers(vertices, min_z, step_size, ks) ==
    IF ks = {} THEN <<>>
    ELSE LET k == MinOf(ks)
             z == min_z + k * step_size
         IN  <<[type |-> "adaptive_layer", z_level |-> z,
                points |-> OptimizePathSequence(BandPoints(vertices, z, step_size))]>>
             \o AdaptiveLayers(vertices, min_z, step_size, ks \ {k})

\* _generate_adaptive_path; tool_diameter in mm, stepover_ratio in tenths.
GenerateAdaptivePath(vertices, tool_diameter, stepover_ratio) ==
    IF vertices = <<>> THEN {Raises("ValueError")}     \* np.min of an empty array
    ELSE LET min_z == ToTw(MinOf(Column(vertices, 3)))
             max_z == ToTw(MaxOf(Column(vertices, 3)))
             step_size == tool_diameter * stepover_ratio   \* twentieths
         IN  IF CurvatureRaises(vertices, K_NEIGHBORS) THEN {Raises("IndexError")}
             ELSE IF step_size = 0 THEN ArangeZeroStep(min_z, max_z)
             ELSE {Ok(AdaptiveLayers(vertices, min_z, step_size,
                        AdaptiveRounds(vertices, min_z, step_size,
                                       ArangeLen(min_z, max_z, step_size))))}

Abs(x) == IF x < 0 THEN -x ELSE x

RemoveAt(s, i) == SubSeq(s, 1, i - 1) \o SubSeq(s, i + 1, Len(s))

\* points_strip[points_strip[:, 0].argsort()]: every order a sort by X can
\* give (equal X in any order).
RECURSIVE ArgsortByX(_)
ArgsortByX(strip) ==
    IF strip = <<>> THEN {<<>>}
    ELSE LET min_x == MinOf(Column(strip, 1))
             firsts == {i \in DOMAIN strip : strip[i][1] = min_x}
         IN  UNION {{<<strip[i]>> \o rest : rest \in ArgsortByX(RemoveAt(strip, i))}
                    : i \in firsts}

StripPointsWide(vertices, y, spacing) ==
    SelectSeq(vertices, LAMBDA v : Abs(ToTw(v[2]) - y) < spacing)

\* self.vertices[mask] for np.abs(Y - y) < spacing / 2.0
StripPoints(vertices, y, spacing) ==
    SelectSeq(vertices, LAMBDA v : 2 * Abs(ToTw(v[2]) - y) < spacing)

\* The rounds k of "for y in np.arange(min_y, max_y, spacing)" whose strip
\* holds a vertex (the others append nothing).
ParallelRounds(vertices, min_y, spacing, n) ==
    {k \in 0..(n - 1) : StripPoints(vertices, min_y + k * spacing, spacing) # <<>>}

\* The path lists the rounds ks can append, in increasing order of y.
RECURSIVE ParallelLines(_, _, _, _)
ParallelLines(vertices, min_y, spacing, ks) ==
    IF ks = {} THEN {<<>>}
    ELSE LET k == MinOf(ks)
             points_strip == StripPoints(vertices, min_y + k * spacing, spacing)
         IN  {<<[points |-> line_points, type |-> "parallel_x"]>> \o r :
                 line_points \in ArgsortByX(points_strip),
                 r \in ParallelLines(vertices, min_y, spacing, ks \ {k})}

\* _generate_parallel_path; angle in degrees, spacing in twentieths of a mm.
GenerateParallelPath(vertices, angle, spacing) ==
    IF vertices = <<>> THEN {Raises("ValueError")}     \* np.min of an empty array
    ELSE LET min_y == ToTw(MinOf(Column(vertices, 2)))
             max_y == ToTw(MaxOf(Column(vertices, 2)))
         IN  IF angle # 0 THEN {Ok(<<>>)}
             ELSE IF spacing = 0 THEN ArangeZeroStep(min_y, max_y)
             ELSE {Ok(paths) : paths \in
                      ParallelLines(vertices, min_y, spacing,
                          ParallelRounds(vertices, min_y, spacing,
                                         ArangeLen(min_y, max_y, spacing)))}

\* stepover defaults to 0.5 (tenths), spacing to tool_radius * 0.7.
DefaultStepover == 5

\* generate_paths(strategy, **kwargs) on AdvancedPathPlanner(mesh, tool_diameter)
GeneratePaths(mesh, tool_diameter, strategy, kwargs) ==
    IF mesh = None THEN {Ok(<<>>)}
    ELSE IF strategy = "adaptive"
         THEN GenerateAdaptivePath(mesh.vertices, tool_diameter,
                                   Get(kwargs, "stepover", DefaultStepover))
    ELSE IF strategy = "parallel"
         THEN GenerateParallelPath(mesh.vertices, Get(kwargs, "angle", 0),
                                   Get(kwargs, "spacing", 7 * tool_diameter))
    ELSE {Ok(<<>>)}

----------------------------------------------------------------------------
(* PolishingMathematicalModel.calculate_tool_orientation                    *)

\* A component that is not a number (0.0 / 0.0).
NaN == "nan"

CalculateToolOrientationTilted(normal) ==
    IF normal = <<0, 0, 0>> THEN <<NaN, NaN, NaN, NaN>>
    ELSE <<0, 1, 0, 0>>

\* The quaternion [qw, qx, qy, qz] for a normal on the Z axis, components
\* to the 6 decimals the generator prints.  A normal (0, 0, z) with z # 0
\* is normalised to +-up_vector: the axis is [1, 0, 0], the angle
\* arccos(+-1) is 0 or pi, so the result is [cos 0, sin 0, 0, 0] or
\* [cos pi/2, sin pi/2, 0, 0].  The zero normal is divided by its norm 0:
\* numpy warns and yields nan in every component, np.allclose is False,
\* the cross product, the angle and all four components are nan; nothing
\* raises.
CalculateToolOrientation(normal) ==
    IF normal = <<0, 0, 0>> THEN <<NaN, NaN, NaN, NaN>>
    ELSE IF normal[3] > 0 THEN <<1, 0, 0, 0>> ELSE <<0, 1, 0, 0>>

\* calculate_surface_curvature(mesh, k_neighbors) for k_neighbors >= 0: the
\* outcomes [err, count], count the length of the array returned.  With
\* k_neighbors = 0, tree.query(point, k=1) returns scalars and indices[1:]
\* fails (IndexError on a numpy integer, TypeError on a Python int).
CalculateSurfaceCurvature(mesh, k_neighbors) ==
    IF mesh = None THEN {[err |-> "none", count |-> 0]}
    ELSE IF mesh.vertices = <<>> THEN {[err |-> "none", count |-> 0]}
    ELSE IF k_neighbors = 0
         THEN {[err |-> "IndexError", count |-> 0], [err |-> "TypeError", count |-> 0]}
    ELSE IF CurvatureRaises(mesh.vertices, k_neighbors)
         THEN {[err |-> "IndexError", count |-> 0]}
    ELSE {[err |-> "none", count |-> Len(mesh.vertices)]}

----------------------------------------------------------------------------
(* PolishingCore                                                            *)

\* self.params
CoreParams ==
    [tool_diameter |-> 8, rough_speed |-> 300, fine_speed |-> 200,
     safety_height |-> 50]

\* config.get('tool_diameter', 8.0)
DefaultToolDiameter == 8
\* config.get(f'{stage}_speed', 200)
DefaultStageSpeed == 200

\* f"{stage}_{idx}"
SegmentName(stage, idx) == stage \o "_" \o ToString(idx)

\* The inner loop of _enrich_path_data over one segment's points.
EnrichPoints(points, speed) ==
    [i \in DOMAIN points |->
        [pos |-> points[i],
         orient |-> CalculateToolOrientation(<<0, 0, 1>>),
         speed |-> speed]]

EnrichSegmentMirrored(path_segment, idx, stage, speed) ==
    LET pts == path_segment.points
    IN  [id |-> idx, name |-> SegmentName(stage, idx),
         points |-> EnrichPoints([i \in DOMAIN pts |-> pts[Len(pts) + 1 - i]], speed)]

\* The segment _enrich_path_data builds from raw segment number idx (0-based).
EnrichSegment(path_segment, idx, stage, speed) ==
    [id |-> idx, name |-> SegmentName(stage, idx),
     points |-> EnrichPoints(path_segment.points, speed)]

\* The loop "for idx, path_segment in enumerate(raw_paths)" from raw
\* segment k (1-based position, idx = k - 1) on.
RECURSIVE EnrichFrom(_, _, _, _)
EnrichFrom(raw_paths, k, stage, speed) ==
    IF k > Len(raw_paths) THEN <<>>
    ELSE LET seg == EnrichSegment(raw_paths[k], k - 1, stage, speed)
             rest == EnrichFrom(raw_paths, k + 1, stage, speed)
         IN  IF seg.points # <<>> THEN <<seg>> \o rest ELSE rest

StageSpeedKey(stage) == IF stage = "rough" THEN "rough_speed" ELSE "fine_speed"

\* _enrich_path_data(raw_paths, stage, config)
EnrichPathData(raw_paths, stage, config) ==
    EnrichFrom(raw_paths, 1, stage,
               Get(config, StageSpeedKey(stage), DefaultStageSpeed))

\* raise ValueError("No model loaded")
NoModelLoaded == "ValueError: No model loaded"

\* A dict that is iterated (paths.items()) is kept as the sequence of its
\* <<key, value>> items in insertion order.
HasKey(items, k) == \E i \in DOMAIN items : items[i][1] = k
Lookup(items, k) == items[CHOOSE i \in DOMAIN items : items[i][1] = k][2]

\* get_generated_code_data()
GetGeneratedCodeData ==
    [paths |-> generated_paths, metadata |-> mesh_metadata, params |-> CoreParams]

----------------------------------------------------------------------------
(* RAPIDGenerator                                                           *)
(*                                                                         *)
(* The program text is the sequence of its lines ("\n".join(code_buffer),  *)
(* split at every line break); a line is the sequence of the pieces it is  *)
(* formatted from: template text and formatted fields.  The templates'     *)
(* Chinese comment lines are given in English.                             *)

BlankLine == <<"">>

\* "{:03d}"
Pad3(i) ==
    IF i < 10 THEN "00" \o ToString(i)
    ELSE IF i < 100 THEN "0" \o ToString(i)
    ELSE ToString(i)

\* "{:.3f}" of a coordinate of c fifths of a millimetre
Fmt3(c) ==
    (IF c < 0 THEN "-" ELSE "") \o ToString(Abs(c) \div UnitDen) \o "."
        \o Pad3((Abs(c) % UnitDen) * (1000 \div UnitDen))

\* "{:.6f}" of a whole number
Fmt6(q) == ToString(q) \o ".000000"

\* "{:.1f}" of n/2 for a whole number n >= 0
Fmt1Half(n) == ToString(n \div 2) \o (IF n % 2 = 0 THEN ".0" ELSE ".5")

\* strftime("%Y-%m-%d %H:%M:%S") of the clock, t seconds into the minute
Timestamp(t) == "2024-01-01 00:00:" \o (IF t < 10 THEN "0" ELSE "") \o ToString(t)

DefaultProgramName == "Polishing_Module"
DefaultRobotModel == "IRB 2600"
\* params.get('tool_length', 200.0), in mm
DefaultToolLength == 200
\* params.get('rough_speed', 300), params.get('fine_speed', 200)
DefaultRoughSpeed == 300
DefaultFineSpeed == 200
\* params.get('target_force', 30.0)
DefaultTargetForce == 30

\* _add_header
AddHeader(context, now) ==
    << <<"MODULE ", Get(context, "program_name", DefaultProgramName)>>,
       <<"! ========================================================">>,
       <<"! generated at: ", Timestamp(now)>>,
       <<"! generator: ABB Polishing Studio v2.0">>,
       <<"! robot: ", Get(Get(context, "params", EmptyDict), "robot_model",
                          DefaultRobotModel)>>,
       <<"! ========================================================">> >>

\* _add_data_declarations
AddDataDeclarations(params) ==
    LET tool_length == Get(params, "tool_length", DefaultToolLength)
    IN
    << BlankLine,
       <<"! tool data">>,
       <<"CONST tooldata ", "tPolishingTool", " := [">>,
       <<"    TRUE,">>,
       <<"    [[0, 0, ", ToString(tool_length) \o ".0", "], [1, 0, 0, 0]],">>,
       <<"    [", "0.500", ", [0, 0, ", Fmt1Half(tool_length),
         "], [1, 0, 0, 0], 0.001, 0.001, 0.001]">>,
       <<"];">>,
       BlankLine,
       <<"! work object">>,
       <<"CONST wobjdata ", "wWorkpiece", " := [">>,
       <<"    FALSE, TRUE, \"\", [[0, 0, 0], [1, 0, 0, 0]],">>,
       <<"    [[", "0.0", ", ", "0.0", ", ", "0.0", "], [", "1.0000", ", ",
         "0.0000", ", ", "0.0000", ", ", "0.0000", "]]">>,
       <<"];">>,
       BlankLine,
       <<"! standard speeds">>,
       <<"CONST speeddata vApproach := [100, 500, 5000, 1000];">>,
       <<"CONST speeddata vRetract := [150, 500, 5000, 1000];">>,
       <<"CONST speeddata vFast := [500, 1000, 5000, 1000];">>,
       <<"CONST speeddata vRough := [",
         ToString(Get(params, "rough_speed", DefaultRoughSpeed)),
         ", 500, 5000, 1000];">>,
       <<"CONST speeddata vFine := [",
         ToString(Get(params, "fine_speed", DefaultFineSpeed)),
         ", 500, 5000, 1000];">>,
       BlankLine,
       <<"! standard zones">>,
       <<"CONST zonedata zFine := [FALSE, 0.3, 0.3, 0.3, 0.03, 0.3, 0.3];">>,
       <<"CONST zonedata zMedium := [FALSE, 1.0, 1.0, 1.0, 0.1, 1.0, 1.0];">>,
       <<"CONST zonedata zLarge := [FALSE, 5.0, 5.0, 5.0, 0.3, 5.0, 5.0];">>,
       BlankLine,
       <<"! IO signals">>,
       <<"VAR signaldo doSpindleStart;">>,
       <<"VAR signaldo doCoolantOn;">>,
       <<"VAR signaldi diEmergencyStop;">>,
       <<"VAR signaldi diToolInPlace;">> >>

PointNameNoSegment(stage_name, segment_id, i) ==
    "p_" \o stage_name \o "_" \o Pad3(i)

\* f"p_{stage_name}_{segment['id']}_{i:03d}", i counted from 0
PointName(stage_name, segment_id, i) ==
    "p_" \o stage_name \o "_" \o ToString(segment_id) \o "_" \o Pad3(i)

\* RAPIDTemplates.ROBTARGET.format(...)
RobtargetLine(p_name, pt) ==
    <<"CONST robtarget ", p_name, " := [[",
      Fmt3(pt.pos[1]), ",", Fmt3(pt.pos[2]), ",", Fmt3(pt.pos[3]), "],[",
      Fmt6(pt.orient[1]), ",", Fmt6(pt.orient[2]), ",", Fmt6(pt.orient[3]), ",",
      Fmt6(pt.orient[4]), "],[0,0,0,0],[9E9,9E9,9E9,9E9,9E9,9E9]];">>

\* Concatenation of a sequence of sequences.
RECURSIVE Flatten(_)
Flatten(ss) == IF ss = <<>> THEN <<>> ELSE Head(ss) \o Flatten(Tail(ss))

\* segment.get('points', [])
SegmentPoints(segment) == Get(segment, "points", <<>>)

\* The robtarget lines of one segment.
SegmentRobtargets(stage_name, segment) ==
    [k \in DOMAIN SegmentPoints(segment) |->
        RobtargetLine(PointName(stage_name, segment.id, k - 1),
                      SegmentPoints(segment)[k])]

\* _add_robtargets
AddRobtargets(paths) ==
    <<BlankLine, <<"! --- robtargets ---">> >>
        \o Flatten([s \in DOMAIN paths |->
               Flatten([g \in DOMAIN paths[s][2] |->
                   SegmentRobtargets(paths[s][1], paths[s][2][g])])])

\* AdvancedFeatures.get_force_control_logic
ForceControlLogic(params) ==
    << BlankLine,
       <<"! --- advanced feature: force control ---">>,
       <<"CONST forcedata fPolishing := [1, [[0,0,0.1], [1,0,0,0]], 50, 50];">>,
       <<"PROC ", "ActivateForceControl", "()">>,
       <<"    ForceDef fPolishing, [[0,0,",
         ToString(Get(params, "target_force", DefaultTargetForce)) \o ".0",
         "]], tPolishingTool;">>,
       <<"    ForceAct fPolishing;">>,
       <<"ENDPROC">>,
       <<"PROC ", "DeactivateForceControl", "()">>,
       <<"    StopForce;">>,
       <<"ENDPROC">> >>

SegmentMovesReversed(stage_name, segment) ==
    << BlankLine, <<"    ! Segment ", ToString(segment.id)>> >>
        \o [k \in DOMAIN SegmentPoints(segment) |->
              <<"    MoveL ",
                PointName(stage_name, segment.id, Len(SegmentPoints(segment)) - k), ", ",
                IF stage_name = "rough" THEN "vRough" ELSE "vFine", ", ",
                IF stage_name = "rough" THEN "zMedium" ELSE "zFine",
                ", tPolishingTool \\WObj:=wWorkpiece;">>]

\* The lines _add_procedures emits for one segment.
SegmentMoves(stage_name, segment) ==
    << BlankLine, <<"    ! Segment ", ToString(segment.id)>> >>
        \o [k \in DOMAIN SegmentPoints(segment) |->
              <<"    MoveL ", PointName(stage_name, segment.id, k - 1), ", ",
                IF stage_name = "rough" THEN "vRough" ELSE "vFine", ", ",
                IF stage_name = "rough" THEN "zMedium" ELSE "zFine",
                ", tPolishingTool \\WObj:=wWorkpiece;">>]

StageProcedureUnclosed(paths, stage_name, use_force) ==
    IF ~HasKey(paths, stage_name) THEN <<>>
    ELSE << BlankLine,
            <<"PROC ", "Path_" \o stage_name, "()">>,
            <<"    TPWrite \"Executing ", stage_name, " polishing...\";">> >>
         \o (IF use_force THEN << <<"    ActivateForceControl;">> >> ELSE <<>>)
         \o Flatten([g \in DOMAIN Lookup(paths, stage_name) |->
                SegmentMoves(stage_name, Lookup(paths, stage_name)[g])])
         \o (IF use_force THEN << <<"    DeactivateForceControl;">> >> ELSE <<>>)
         \o (IF Lookup(paths, stage_name) = <<>> THEN <<>> ELSE << <<"ENDPROC">> >>)

\* One round of the loop "for stage_name in ['rough', 'fine']".
StageProcedure(paths, stage_name, use_force) ==
    IF ~HasKey(paths, stage_name) THEN <<>>
    ELSE << BlankLine,
            <<"PROC ", "Path_" \o stage_name, "()">>,
            <<"    TPWrite \"Executing ", stage_name, " polishing...\";">> >>
         \o (IF use_force THEN << <<"    ActivateForceControl;">> >> ELSE <<>>)
         \o Flatten([g \in DOMAIN Lookup(paths, stage_name) |->
                SegmentMoves(stage_name, Lookup(paths, stage_name)[g])])
         \o (IF use_force THEN << <<"    DeactivateForceControl;">> >> ELSE <<>>)
         \o << <<"ENDPROC">> >>

AddProceduresNoForce(paths, params) ==
    StageProcedure(paths, "rough", FALSE) \o StageProcedure(paths, "fine", FALSE)

\* _add_procedures
AddProcedures(paths, params) ==
    LET use_force == Get(params, "enable_force_control", FALSE)
    IN  StageProcedure(paths, "rough", use_force)
            \o StageProcedure(paths, "fine", use_force)

AddMainInsertionOrder(paths, params) ==
    << BlankLine,
       <<"PROC ", "main", "()">>,
       <<"    TPWrite \"Starting Polishing Cycle\";">>,
       <<"    ! initialise IO">>,
       <<"    SetDO doSpindleStart, 1;">>,
       <<"    WaitTime 1;">> >>
    \o [k \in DOMAIN paths |-> <<"    ", "Path_" \o paths[k][1], ";">>]
    \o << <<"    SetDO doSpindleStart, 0;">>,
          <<"    TPWrite \"Cycle Complete\";">>,
          <<"ENDPROC">> >>

\* _add_main
AddMain(paths, params) ==
    << BlankLine,
       <<"PROC ", "main", "()">>,
       <<"    TPWrite \"Starting Polishing Cycle\";">>,
       <<"    ! initialise IO">>,
       <<"    SetDO doSpindleStart, 1;">>,
       <<"    WaitTime 1;">> >>
    \o (IF HasKey(paths, "rough") THEN << <<"    ", "Path_rough", ";">> >> ELSE <<>>)
    \o (IF HasKey(paths, "fine") THEN << <<"    ", "Path_fine", ";">> >> ELSE <<>>)
    \o << <<"    SetDO doSpindleStart, 0;">>,
          <<"    TPWrite \"Cycle Complete\";">>,
          <<"ENDPROC">> >>

\* RAPIDGenerator.generate(context), called when the clock reads `now`.
Generate(context, now) ==
    LET params == Get(context, "params", EmptyDict)
        paths == Get(context, "paths", <<>>)
    IN  AddHeader(context, now)
            \o AddDataDeclarations(params)
            \o AddRobtargets(paths)
            \o (IF Get(params, "enable_force_control", FALSE)
                THEN ForceControlLogic(params) ELSE <<>>)
            \o AddProcedures(paths, params)
            \o AddMain(paths, params)
            \o << <<"ENDMODULE">> >>

----------------------------------------------------------------------------
(* Inputs *)

HeaderPlain == <<"s","o","l","i","d">>
HeaderNxInch == <<"N","X"," ","U","N","I","T","S","=","I","N">>

File(header, verts) ==
    [exists |-> TRUE, parses |-> TRUE, header |-> header, verts |-> verts,
     nfaces |-> IF Len(verts) < 3 THEN 0 ELSE Len(verts) - 2]

MissingFile ==
    [exists |-> FALSE, parses |-> FALSE, header |-> <<>>, verts |-> <<>>, nfaces |-> 0]
BrokenFile ==
    [exists |-> TRUE, parses |-> FALSE, header |-> HeaderPlain, verts |-> <<>>, nfaces |-> 0]

\* A flat 10 mm square: 4 vertices at the corners of its bounding box.
FlatSquare == << <<0, 0, 0>>, <<10, 0, 0>>, <<10, 10, 0>>, <<0, 10, 0>>>>
\* A flat 12 mm square, its side no multiple of 5 mm.
FlatSquare12 == << <<0, 0, 0>>, <<12, 0, 0>>, <<12, 12, 0>>, <<0, 12, 0>>>>
\* Three vertices on one scan line, two of them with equal X.
TiedStrip == << <<4, 0, 1>>, <<4, 0, 0>>, <<1, 0, 0>>>>
\* n scattered vertices: X in scrambled order, Y on 4 rows 3 mm apart,
\* Z on 5 levels 1 mm apart.
Scattered(n) == [i \in 1..n |-> <<(5 * i) % 13, 3 * (i % 4), i % 5>>]

FacadeVerts == {<<>>, FlatSquare, TiedStrip, Scattered(NBig)}

Files ==
    {MissingFile, BrokenFile}
        \cup {File(h, v) : h \in {HeaderPlain, HeaderNxInch}, v \in FacadeVerts}

\* config dicts; stepover in tenths, tool_diameter in mm
Configs ==
    { EmptyDict,
      [path_type |-> "parallel"],
      [path_type |-> "parallel", tool_diameter |-> 20, rough_speed |-> 150],
      [path_type |-> "parallel", tool_diameter |-> -8],
      [path_type |-> "adaptive", stepover |-> 10, fine_speed |-> 100],
      [stepover |-> 0],
      [stepover |-> -5],
      [path_type |-> "spiral"],
      [path_type |-> "invalid"] }

\* (strategy, kwargs) of a generate_paths call; spacing in twentieths of a mm
PlannerCalls ==
    {[strategy |-> "adaptive", kwargs |-> EmptyDict]}
    \cup {[strategy |-> "adaptive", kwargs |-> [stepover |-> so]] : so \in {-5, 0, 5, 10}}
    \cup {[strategy |-> "parallel", kwargs |-> EmptyDict]}
    \cup {[strategy |-> "parallel", kwargs |-> [angle |-> a]] : a \in {0, 90}}
    \cup {[strategy |-> "parallel", kwargs |-> [spacing |-> sp]] : sp \in {-20, 0, 20, 100}}
    \cup {[strategy |-> "parallel", kwargs |-> [angle |-> a, spacing |-> sp]]
            : a \in {0, 90}, sp \in {-20, 0, 20, 100}}
    \cup {[strategy |-> st, kwargs |-> EmptyDict] : st \in {"spiral", "invalid"}}

\* What a caller may add to the facade's data before generating.
ContextExtras ==
    { EmptyDict,
      [enable_force_control |-> TRUE],
      [enable_force_control |-> TRUE, program_name |-> "Part_A"] }

----------------------------------------------------------------------------
(* State machine: the facade, a planner over its mesh, the generator        *)

Init ==
    /\ current_mesh = None
    /\ mesh_metadata = EmptyDict
    /\ generated_paths = <<>>
    /\ clock = 0
    /\ last = [op |-> "init"]

\* mesh.bounds
Bounds(vertices) ==
    IF vertices = <<>> THEN <<>>
    ELSE << [a \in 1..3 |-> MinOf(Column(vertices, a))],
            [a \in 1..3 |-> MaxOf(Column(vertices, a))] >>

\* PolishingCore.load_model(file_path, force_nx)
LoadModel(file, force_nx) ==
    IF ~file.exists
    THEN /\ last' = [op |-> "load_model", file |-> file, force_nx |-> force_nx,
                     ok |-> FALSE, msg |-> "File not found", stats |-> EmptyDict]
         /\ UNCHANGED <<current_mesh, mesh_metadata, generated_paths, clock>>
    ELSE IF ~file.parses          \* trimesh.load raises inside load_mesh
    THEN /\ last' = [op |-> "load_model", file |-> file, force_nx |-> force_nx,
                     ok |-> FALSE, msg |-> "str(e)", stats |-> EmptyDict]
         /\ UNCHANGED <<current_mesh, mesh_metadata, generated_paths, clock>>
    ELSE IF "scene" \in DOMAIN file
    THEN \* trimesh.load returns a Scene: it has metadata but no vertices
         LET metadata == ReadMetadata(file)
         IN  IF (force_nx \/ metadata.is_nx) /\ metadata.units = "inch"
             THEN \* mesh.vertices *= 25.4 raises inside load_mesh
                  /\ last' = [op |-> "load_model", file |-> file, force_nx |-> force_nx,
                              ok |-> FALSE, msg |-> "str(e)", stats |-> EmptyDict]
                  /\ UNCHANGED <<current_mesh, mesh_metadata, generated_paths, clock>>
             ELSE \* both attributes are assigned, then
                  \* len(self.current_mesh.vertices) raises AttributeError
                  /\ current_mesh' = [metadata |-> metadata, scene |-> TRUE]
                  /\ mesh_metadata' = metadata
                  /\ last' = [op |-> "load_model", file |-> file, force_nx |-> force_nx,
                              ok |-> FALSE, msg |-> "str(e)", stats |-> EmptyDict]
                  /\ UNCHANGED <<generated_paths, clock>>
    ELSE LET mesh == LoadMesh(file, force_nx)
         IN  /\ current_mesh' = mesh
             /\ mesh_metadata' = mesh.metadata
             /\ last' = [op |-> "load_model", file |-> file, force_nx |-> force_nx,
                         ok |-> TRUE, msg |-> "Model loaded successfully",
                         stats |-> [vertices |-> Len(mesh.vertices),
                                    faces |-> mesh.nfaces,
                                    bounds |-> Bounds(mesh.vertices),
                                    is_nx |-> mesh.metadata.is_nx]]
             /\ UNCHANGED <<generated_paths, clock>>

PlanFailed(config, err) ==
    /\ last' = [op |-> "generate_polishing_paths", config |-> config, err |-> err]
    /\ UNCHANGED <<current_mesh, mesh_metadata, generated_paths, clock>>

FinePlanFailedKeepsRough(config, rough_paths, err) ==
    /\ last' = [op |-> "generate_polishing_paths", config |-> config, err |-> err,
                stage |-> "fine", rough_paths |-> rough_paths]
    /\ generated_paths' = << <<"rough", EnrichPathData(rough_paths, "rough", config)>> >>
    /\ UNCHANGED <<current_mesh, mesh_metadata, clock>>

\* generate_polishing_paths left by an exception of the fine stage's
\* planner call: rough_paths is a local that is dropped, nothing is stored.
FinePlanFailed(config, rough_paths, err) ==
    /\ last' = [op |-> "generate_polishing_paths", config |-> config, err |-> err,
                stage |-> "fine", rough_paths |-> rough_paths]
    /\ UNCHANGED <<current_mesh, mesh_metadata, generated_paths, clock>>

\* PolishingCore.generate_polishing_paths(config)
GeneratePolishingPaths(config) ==
    IF current_mesh = None THEN PlanFailed(config, NoModelLoaded)
    ELSE LET tool_diameter == Get(config, "tool_diameter", DefaultToolDiameter)
         IN
         \E rough \in GeneratePaths(current_mesh, tool_diameter,
                         Get(config, "path_type", "adaptive"),
                         [stepover |-> Get(config, "stepover", DefaultStepover)]) :
           IF rough.err # "none" THEN PlanFailed(config, rough.err)
           ELSE
           \E fine \in GeneratePaths(current_mesh, tool_diameter, "parallel",
                          [angle |-> 90, spacing |-> 6 * tool_diameter]) :
             IF fine.err # "none" THEN FinePlanFailed(config, rough.paths, fine.err)
             ELSE
             /\ generated_paths' =
                   << <<"rough", EnrichPathData(rough.paths, "rough", config)>>,
                      <<"fine", EnrichPathData(fine.paths, "fine", config)>> >>
             /\ last' = [op |-> "generate_polishing_paths", config |-> config,
                         err |-> "none",
                         rough_paths |-> rough.paths, fine_paths |-> fine.paths,
                         out |-> generated_paths']
             /\ UNCHANGED <<current_mesh, mesh_metadata, clock>>

\* AdvancedPathPlanner(self.current_mesh, tool_diameter).generate_paths(...)
CallGeneratePaths(mesh, tool_diameter, call) ==
    \E out \in GeneratePaths(mesh, tool_diameter, call.strategy, call.kwargs) :
        /\ last' = [op |-> "generate_paths", mesh |-> mesh,
                    tool_diameter |-> tool_diameter, strategy |-> call.strategy,
                    kwargs |-> call.kwargs, err |-> out.err, out |-> out.paths]
        /\ UNCHANGED <<current_mesh, mesh_metadata, generated_paths, clock>>

\* The context a caller builds from get_generated_code_data() and `extra`.
CoreContext(extra) ==
    LET data == GetGeneratedCodeData
        params == [k \in (DOMAIN data.params) \cup (DOMAIN extra \ {"program_name"}) |->
                      IF k \in DOMAIN extra THEN extra[k] ELSE data.params[k]]
        base == [paths |-> data.paths, metadata |-> data.metadata, params |-> params]
    IN  IF "program_name" \in DOMAIN extra
        THEN [k \in DOMAIN base \cup {"program_name"} |->
                 IF k = "program_name" THEN extra.program_name ELSE base[k]]
        ELSE base

\* RAPIDGenerator().generate(context): the buffer is emptied first, so the
\* text depends on the context and the clock only.
CallGenerate(context) ==
    /\ last' = [op |-> "generate", context |-> context, now |-> clock,
                text |-> Generate(context, clock)]
    /\ UNCHANGED <<current_mesh, mesh_metadata, generated_paths, clock>>

\* generate(core.get_generated_code_data()), with the caller's extras
GenerateFromCore(extra) == CallGenerate(CoreContext(extra))

\* generate called once more with the context of the last call
GenerateAgain ==
    /\ last.op \in {"context", "generate"}
    /\ CallGenerate(last.context)

\* A second of wall-clock time passes.
Tick ==
    /\ clock < MaxClock
    /\ clock' = clock + 1
    /\ UNCHANGED <<current_mesh, mesh_metadata, generated_paths, last>>

Next ==
    \/ \E file \in Files, force_nx \in BOOLEAN : LoadModel(file, force_nx)
    \/ \E config \in Configs : GeneratePolishingPaths(config)
    \/ \E call \in PlannerCalls : CallGeneratePaths(current_mesh, DefaultToolDiameter, call)
    \/ \E extra \in ContextExtras : GenerateFromCore(extra)
    \/ GenerateAgain
    \/ Tick

Spec == Init /\ [][Next]_vars

----------------------------------------------------------------------------
(* The sequencer on its own *)

\* Inputs of the sequencer: every list of up to MaxSeqLen grid points.
SeqPoints == (0..MaxCoord) \X (0..1) \X (0..1)
SeqInputs == SeqsUpTo(SeqPoints, MaxSeqLen)

\* A caller holding a point list, about to hand it to the sequencer.
InitSequencer ==
    /\ current_mesh = None
    /\ mesh_metadata = EmptyDict
    /\ generated_paths = <<>>
    /\ clock = 0
    /\ last \in {[op |-> "input", points |-> p] : p \in SeqInputs}

CallOptimizePathSequence ==
    /\ last.op = "input"
    /\ last' = [op |-> "optimize_path_sequence", points |-> last.points,
                out |-> OptimizePathSequence(last.points)]
    /\ UNCHANGED <<current_mesh, mesh_metadata, generated_paths, clock>>

CallOptimizePathLength ==
    /\ last.op = "input"
    /\ last' = [op |-> "optimize_path_length", points |-> last.points,
                out |-> OptimizePathLength(last.points)]
    /\ UNCHANGED <<current_mesh, mesh_metadata, generated_paths, clock>>

\* optimize_path_sequence applied to the list its last call returned
CallOptimizePathSequenceAgain ==
    /\ last.op = "optimize_path_sequence"
    /\ last' = [op |-> "optimize_path_sequence_twice", points |-> last.points,
                once |-> last.out, out |-> OptimizePathSequence(last.out)]
    /\ UNCHANGED <<current_mesh, mesh_metadata, generated_paths, clock>>

NextSequencer ==
    \/ CallOptimizePathSequence
    \/ CallOptimizePathLength
    \/ CallOptimizePathSequenceAgain

SpecSequencer == InitSequencer /\ [][NextSequencer]_vars

----------------------------------------------------------------------------
(* The planner on its own, over a wider set of meshes *)

PlanPoints == (0..1) \X (0..1) \X (0..1)

PlannerMeshes ==
    {LoadMesh(File(HeaderPlain, v), FALSE) :
        v \in SeqsUpTo(PlanPoints, MaxMeshVerts)
              \cup {FlatSquare, FlatSquare12, TiedStrip}
              \cup {Scattered(n) : n \in (K_NEIGHBORS + 1)..NBig}}

InitPlanner ==
    /\ current_mesh = None
    /\ mesh_metadata = EmptyDict
    /\ generated_paths = <<>>
    /\ clock = 0
    /\ last \in {[op |-> "planner", mesh |-> m, tool_diameter |-> d, call |-> c] :
                    m \in PlannerMeshes \cup {None}, d \in {2, DefaultToolDiameter},
                    c \in PlannerCalls}

PlannerCall ==
    /\ last.op = "planner"
    /\ CallGeneratePaths(last.mesh, last.tool_diameter, last.call)

SpecPlanner == InitPlanner /\ [][PlannerCall]_vars

----------------------------------------------------------------------------
(* The enricher on its own *)

EnrichPointLists == SeqsUpTo({<<0, 0, 0>>, <<5, 0, 0>>}, MaxSegPoints)

RawSegments ==
    {[points |-> pts, type |-> "parallel_x"] : pts \in EnrichPointLists}

EnrichInputs ==
    {[op |-> "raw", raw_paths |-> r, stage |-> st, config |-> c] :
        r \in SeqsUpTo(RawSegments, MaxSegs), st \in {"rough", "fine"},
        c \in {EmptyDict, [rough_speed |-> 150]}}

InitEnricher ==
    /\ current_mesh = None
    /\ mesh_metadata = EmptyDict
    /\ generated_paths = <<>>
    /\ clock = 0
    /\ last \in EnrichInputs

CallEnrichPathData ==
    /\ last.op = "raw"
    /\ last' = [op |-> "enrich", raw_paths |-> last.raw_paths, stage |-> last.stage,
                config |-> last.config,
                out |-> EnrichPathData(last.raw_paths, last.stage, last.config)]
    /\ UNCHANGED <<current_mesh, mesh_metadata, generated_paths, clock>>

SpecEnricher == InitEnricher /\ [][CallEnrichPathData]_vars

----------------------------------------------------------------------------
(* The generator on its own, over plans of every shape *)

\* Plans: no stage, one stage, both, in either insertion order, each stage
\* with no segment or with enriched segments.
GeneratorSegments ==
    {[points |-> pts, type |-> "parallel_x"] :
        pts \in SeqsUpTo({<<5, 0, -3>>}, MaxSegPoints)}

StagePlans(stage) ==
    {EnrichPathData(r, stage, EmptyDict) : r \in SeqsUpTo(GeneratorSegments, MaxSegs)}

Plans ==
    {<<>>}
    \cup {<< <<"rough", segs>> >> : segs \in StagePlans("rough")}
    \cup {<< <<"fine", segs>> >> : segs \in StagePlans("fine")}
    \cup {<< <<"rough", r>>, <<"fine", f>> >> :
            r \in StagePlans("rough"), f \in StagePlans("fine")}
    \cup {<< <<"fine", f>>, <<"rough", r>> >> :
            r \in StagePlans("rough"), f \in StagePlans("fine")}

GeneratorParams ==
    { EmptyDict, CoreParams,
      [enable_force_control |-> FALSE, rough_speed |-> 150],
      [enable_force_control |-> TRUE, target_force |-> 20, tool_length |-> 151] }

Contexts ==
    {[paths |-> p, params |-> q] : p \in Plans, q \in GeneratorParams}
    \cup {[paths |-> p, params |-> [enable_force_control |-> TRUE],
           program_name |-> "Part_A"] : p \in Plans}
    \cup {EmptyDict}

InitGenerator ==
    /\ current_mesh = None
    /\ mesh_metadata = EmptyDict
    /\ generated_paths = <<>>
    /\ clock = 0
    /\ last \in {[op |-> "context", context |-> c] : c \in Contexts}

NextGenerator ==
    \/ GenerateAgain
    \/ Tick

SpecGenerator == InitGenerator /\ [][NextGenerator]_vars

----------------------------------------------------------------------------
(* The loader on its own, over headers of several kinds *)

HeaderNxMm == <<"N","X"," ","U","N","I","T","S","=","M","M">>
\* an inch tag followed by a part name
HeaderInchHammer ==
    <<"U","N","I","T","S","=","I","N"," ","P","A","R","T","=","H","A","M","M","E","R">>
\* vendor marker, no unit anywhere
HeaderNxBinary == <<"N","X"," ","b","i","n","a","r","y">>
HeaderNxPart == <<"N","X"," ","p","a","r","t">>

LoaderHeaders ==
    {HeaderPlain, HeaderNxInch, HeaderNxMm, HeaderInchHammer, HeaderNxBinary,
     HeaderNxPart}

\* A file trimesh.load reads as a Scene of several bodies, not as a mesh.
SceneFile(header) ==
    [exists |-> TRUE, parses |-> TRUE, header |-> header, verts |-> <<>>,
     nfaces |-> 0, scene |-> TRUE]

LoaderFiles ==
    {MissingFile, BrokenFile, SceneFile(HeaderPlain), SceneFile(HeaderNxInch)}
        \cup {File(h, v) : h \in LoaderHeaders,
                           v \in SeqsUpTo(PlanPoints, MaxMeshVerts) \cup {TiedStrip}}

\* A caller holding a file path, about to load it.
InitLoader ==
    /\ current_mesh = None
    /\ mesh_metadata = EmptyDict
    /\ generated_paths = <<>>
    /\ clock = 0
    /\ last \in {[op |-> "file", file |-> f, force_nx |-> b] :
                    f \in LoaderFiles, b \in BOOLEAN}

LoadFile ==
    /\ last.op = "file"
    /\ LoadModel(last.file, last.force_nx)

SpecLoader == InitLoader /\ [][LoadFile]_vars

----------------------------------------------------------------------------
(* The mathematical model on its own, and the enricher that calls it *)

\* Neighbour counts: none, fewer than 3, 3, the default.
NeighbourCounts == {0, 1, 3, K_NEIGHBORS}

\* Normals on the Z axis, the zero normal among them.
Normals == {<<0, 0, z>> : z \in (-2)..2}

InitMath ==
    /\ current_mesh = None
    /\ mesh_metadata = EmptyDict
    /\ generated_paths = <<>>
    /\ clock = 0
    /\ last \in {[op |-> "mesh", mesh |-> m, k_neighbors |-> k] :
                    m \in PlannerMeshes \cup {None}, k \in NeighbourCounts}
                \cup {[op |-> "normal", normal |-> n] : n \in Normals}
                \cup EnrichInputs

CallCalculateSurfaceCurvature ==
    /\ last.op = "mesh"
    /\ \E out \in CalculateSurfaceCurvature(last.mesh, last.k_neighbors) :
          last' = [op |-> "calculate_surface_curvature", mesh |-> last.mesh,
                   k_neighbors |-> last.k_neighbors, err |-> out.err,
                   count |-> out.count]
    /\ UNCHANGED <<current_mesh, mesh_metadata, generated_paths, clock>>

CallCalculateToolOrientation ==
    /\ last.op = "normal"
    /\ last' = [op |-> "calculate_tool_orientation", normal |-> last.normal,
                err |-> "none", out |-> CalculateToolOrientation(last.normal)]
    /\ UNCHANGED <<current_mesh, mesh_metadata, generated_paths, clock>>

NextMath ==
    \/ CallCalculateSurfaceCurvature
    \/ CallCalculateToolOrientation
    \/ CallEnrichPathData

SpecMath == InitMath /\ [][NextMath]_vars

----------------------------------------------------------------------------
(* Claims *)

IsSequencerCall ==
    last.op \in {"optimize_path_sequence", "optimize_path_length"}

\* C1: optimize_path_sequence returns a list of the same length that is a
\* permutation of its input: the multiset of points is unchanged, and (for
\* inputs longer than 2) every input index is visited exactly once.
C1_SequenceIsPermutation ==
    IsSequencerCall =>
        /\ Len(last.out) = Len(last.points)
        /\ SameMultiset(last.out, last.points)
        /\ Len(last.points) > 2 =>
              IsPermutationOf(OptimizedIndices(last.points), Len(last.points))

\* C1 witness: a 4-point input with a duplicate point and a distance tie
\* that the sequencer actually reordered.
C1_Witness ==
    /\ last.op = "optimize_path_sequence"
    /\ Len(last.points) = 4
    /\ Cardinality(Range(last.points)) < 4
    /\ last.out # last.points

(* Reading a program text *)

IsMoveL(line) == line[1] = "    MoveL "
IsRobtarget(line) == line[1] = "CONST robtarget "
IsProcOpener(line) == line[1] = "PROC "
IsEndProc(line) == line = <<"ENDPROC">>
IsModuleLine(line) == line[1] = "MODULE "
IsEndModule(line) == line = <<"ENDMODULE">>

MoveLLines(text) == {i \in DOMAIN text : IsMoveL(text[i])}
RobtargetLines(text) == {i \in DOMAIN text : IsRobtarget(text[i])}

\* The number of path points of a plan.
RECURSIVE SumLens(_)
SumLens(ss) == IF ss = <<>> THEN 0 ELSE Len(Head(ss)) + SumLens(Tail(ss))
PlanPointCount(paths) ==
    SumLens(Flatten([s \in DOMAIN paths |->
               [g \in DOMAIN paths[s][2] |-> paths[s][2][g].points]]))

\* C2: in a program generated for a plan the facade built with
\* _enrich_path_data, every robtarget name a MoveL uses is declared by
\* exactly one CONST robtarget line, which comes before every MoveL using
\* it, and no two path points share a name (one declaration per point, all
\* names different).
C2_TargetsDeclaredOnceBeforeUse ==
    last.op = "generate" =>
        LET text == last.text
            paths == Get(last.context, "paths", <<>>)
        IN  /\ \A i \in MoveLLines(text) :
                  /\ Cardinality({j \in RobtargetLines(text) :
                                    text[j][2] = text[i][2]}) = 1
                  /\ \A j \in RobtargetLines(text) :
                        text[j][2] = text[i][2] => j < i
            /\ Cardinality(RobtargetLines(text)) = PlanPointCount(paths)
            /\ \A j, k \in RobtargetLines(text) :
                  j # k => text[j][2] # text[k][2]

\* C2 witness: a program for a facade plan with several segments of
\* several points (a MoveL to the second point of the second rough segment).
C2_Witness ==
    /\ last.op = "generate"
    /\ last.context.paths = generated_paths
    /\ \E i \in MoveLLines(last.text) : last.text[i][2] = "p_rough_1_001"
    /\ Cardinality(MoveLLines(last.text)) >= 4

CountLines(text, P(_)) == Cardinality({i \in DOMAIN text : P(text[i])})

\* C3: every generated text has as many PROC openers as ENDPROC
\* terminators, exactly one MODULE line and exactly one ENDMODULE line.
C3_StructuralBalance ==
    last.op = "generate" =>
        /\ CountLines(last.text, IsProcOpener) = CountLines(last.text, IsEndProc)
        /\ CountLines(last.text, IsModuleLine) = 1
        /\ CountLines(last.text, IsEndModule) = 1

\* C3 witness: force control on, both stages present, one of them with no
\* segment: five procedures.
C3_Witness ==
    /\ last.op = "generate"
    /\ Get(Get(last.context, "params", EmptyDict), "enable_force_control", FALSE)
    /\ HasKey(last.context.paths, "rough") /\ HasKey(last.context.paths, "fine")
    /\ Lookup(last.context.paths, "fine") = <<>>
    /\ Lookup(last.context.paths, "rough") # <<>>
    /\ CountLines(last.text, IsProcOpener) = 5

\* C4 (as claimed): two generate calls with the same context return the
\* same text, whenever they are made.
C4_GenerateTwiceSameText ==
    [][(last.op = "generate" /\ last'.op = "generate"
          /\ last'.context = last.context) => last'.text = last.text]_vars

\* C5 (as claimed): while no load_model has succeeded, a plan request and a
\* generate request over the facade's data both fail with NoModelLoaded.
C5_RejectedBeforeLoad ==
    (current_mesh = None /\ last.op \in {"generate_polishing_paths", "generate"}) =>
        /\ "err" \in DOMAIN last
        /\ last.err = NoModelLoaded

ValidStrategies == {"adaptive", "parallel", "spiral"}

\* C6 (as claimed): a plan request with a strategy name outside adaptive,
\* parallel, spiral fails with InvalidParameter, through a planner built
\* over a mesh and through the facade (once a model is loaded).
C6_UnknownStrategyRejected ==
    /\ (last.op = "generate_paths" /\ last.mesh # None
          /\ last.strategy \notin ValidStrategies)
          => last.err = "InvalidParameter"
    /\ (last.op = "generate_polishing_paths" /\ current_mesh # None
          /\ current_mesh.vertices # <<>>
          /\ Get(last.config, "path_type", "adaptive") \notin ValidStrategies)
          => last.err = "InvalidParameter"

\* C7 (as claimed): planning with a zero or negative stepover ratio
\* (adaptive) or spacing (parallel) fails with InvalidParameter.  Stated on
\* the meshes of more than k_neighbors vertices, which both strategies plan
\* without error when the step is positive.
C7_NonPositiveStepRejected ==
    (/\ last.op = "generate_paths"
     /\ last.mesh # None
     /\ Len(last.mesh.vertices) > K_NEIGHBORS
     /\ \/ /\ last.strategy = "adaptive"
           /\ Get(last.kwargs, "stepover", DefaultStepover) <= 0
        \/ /\ last.strategy = "parallel"
           /\ Get(last.kwargs, "spacing", 7 * last.tool_diameter) <= 0)
        => last.err = "InvalidParameter"

\* C8 (as claimed): planning over a mesh with no vertex returns an empty
\* segment list under adaptive and under parallel, and raises nothing.
C8_EmptyMeshPlansEmpty ==
    (/\ last.op = "generate_paths"
     /\ last.mesh # None
     /\ last.mesh.vertices = <<>>
     /\ last.strategy \in {"adaptive", "parallel"})
        => (last.err = "none" /\ last.out = <<>>)

\* C9 (as claimed): a stage the plan maps to zero segments gets no
\* procedure in the program, and main does not call it.
C9_EmptyStageSkipped ==
    last.op = "generate" =>
        \A stage \in {"rough", "fine"} :
            (/\ HasKey(Get(last.context, "paths", <<>>), stage)
             /\ Lookup(last.context.paths, stage) = <<>>)
            => \A i \in DOMAIN last.text :
                  /\ last.text[i] # <<"PROC ", "Path_" \o stage, "()">>
                  /\ last.text[i] # <<"    ", "Path_" \o stage, ";">>

\* The positions of a raw segment's points, read back from its enriched points.
Positions(points) == [i \in DOMAIN points |-> points[i].pos]

\* C10: _enrich_path_data keeps the traversal order: the enriched segments
\* come in the order of the raw segments they are built from (increasing
\* raw index), each raw segment with points yields exactly one of them, and
\* its points are the raw segment's positions, in the raw order.
C10_EnrichKeepsOrder ==
    last.op = "enrich" =>
        LET raw == last.raw_paths
            out == last.out
        IN  /\ \A a, b \in DOMAIN out : a < b => out[a].id < out[b].id
            /\ {out[a].id : a \in DOMAIN out}
                  = {k - 1 : k \in {k \in DOMAIN raw : raw[k].points # <<>>}}
            /\ \A a \in DOMAIN out :
                  Positions(out[a].points) = raw[out[a].id + 1].points

\* C10 witness: two raw segments with points around an empty one... here a
\* raw list whose second segment holds two different points in an order
\* that is not sorted, after a first segment, both kept.
C10_Witness ==
    /\ last.op = "enrich"
    /\ Len(last.raw_paths) = 2
    /\ last.raw_paths[2].points = << <<5, 0, 0>>, <<0, 0, 0>> >>
    /\ Len(last.out) = 2
    /\ Positions(last.out[2].points) = << <<5, 0, 0>>, <<0, 0, 0>> >>

\* C11 (as claimed): every point enrichment creates for a stage carries the
\* feed speed configured for that stage and a blend-zone class, medium for
\* the rough stage and fine for the fine stage.
C11_PointsCarrySpeedAndZone ==
    last.op = "enrich" =>
        \A s \in DOMAIN last.out : \A i \in DOMAIN last.out[s].points :
            LET pt == last.out[s].points[i]
            IN  /\ pt.speed = Get(last.config, StageSpeedKey(last.stage),
                                  DefaultStageSpeed)
                /\ \E f \in DOMAIN pt \ {"pos", "orient", "speed"} :
                      pt[f] = IF last.stage = "rough" THEN "medium" ELSE "fine"

\* The line numbers of the main procedure's body in a program text.
MainBody(text) ==
    LET start == CHOOSE i \in DOMAIN text : text[i] = <<"PROC ", "main", "()">>
    IN  {i \in DOMAIN text : i > start}

LinesEqual(text, idxs, line) == {i \in idxs : text[i] = line}

\* C12: in every generated main procedure the stage calls come rough before
\* fine, every stage call lies after the IO initialisation (SetDO
\* doSpindleStart, 1; WaitTime 1) and before the IO teardown (SetDO
\* doSpindleStart, 0), and both IO steps are there whichever stages the
\* plan has.
C12_MainOrder ==
    last.op = "generate" =>
        LET text == last.text
            body == MainBody(text)
            on == LinesEqual(text, body, <<"    SetDO doSpindleStart, 1;">>)
            wait == LinesEqual(text, body, <<"    WaitTime 1;">>)
            off == LinesEqual(text, body, <<"    SetDO doSpindleStart, 0;">>)
            rough == LinesEqual(text, body, <<"    ", "Path_rough", ";">>)
            fine == LinesEqual(text, body, <<"    ", "Path_fine", ";">>)
        IN  /\ Cardinality(LinesEqual(text, DOMAIN text, <<"PROC ", "main", "()">>)) = 1
            /\ Cardinality(on) = 1 /\ Cardinality(wait) = 1 /\ Cardinality(off) = 1
            /\ \A i \in on, j \in wait : i < j
            /\ \A c \in rough \cup fine :
                  /\ \A j \in wait : j < c
                  /\ \A k \in off : c < k
            /\ \A r \in rough, f \in fine : r < f
            /\ (rough # {}) = HasKey(Get(last.context, "paths", <<>>), "rough")
            /\ (fine # {}) = HasKey(Get(last.context, "paths", <<>>), "fine")

\* A program was generated from a plan that lists the fine stage first.
C12_Witness ==
    /\ last.op = "generate"
    /\ Len(Get(last.context, "paths", <<>>)) = 2
    /\ last.context.paths[1][1] = "fine"
    /\ \E i, j \in DOMAIN last.text :
          /\ i < j
          /\ last.text[i] = <<"    ", "Path_rough", ";">>
          /\ last.text[j] = <<"    ", "Path_fine", ";">>

\* The header tags the unit as inch.
TaggedInch(header) ==
    Contains(Upper(header), <<"U","N","I","T","S","=","I","N">>)

\* C13 (as claimed): a mesh whose header tags the unit as inch is loaded with
\* every vertex coordinate equal to the raw file value times 25.4, whatever
\* else the header contains.
C13_InchScaledOnce ==
    (last.op = "load_model" /\ last.ok /\ TaggedInch(last.file.header))
        => current_mesh.vertices = ScaleVerts(last.file.verts, InchNum)

\* The header names a unit: a UNITS= field or a unit word.
HasUnitHint(header) ==
    \E hint \in { <<"U","N","I","T","S","=">>, <<"I","N","C","H">>, <<"M","M">>,
                  <<"C","M">>, <<"M","E","T","E","R">>, <<"M","E","T","R","E">> } :
        Contains(Upper(header), hint)

\* C14 (as claimed): a file whose header carries no unit hint is loaded with
\* vertex coordinates equal to the raw file values, with or without vendor
\* markers in the header and with or without force_nx.
C14_NoHintNoScaling ==
    (last.op = "load_model" /\ last.ok /\ ~HasUnitHint(last.file.header))
        => current_mesh.vertices = ScaleVerts(last.file.verts, UnitDen)

\* C15 (as claimed): for every mesh and neighbour count k,
\* calculate_surface_curvature returns one curvature value per vertex and
\* raises nothing, for meshes of fewer than k + 1 vertices and for the
\* zero-vertex mesh as well.  Stated for k >= 1.
C15_OneCurvaturePerVertex ==
    (last.op = "calculate_surface_curvature" /\ last.mesh # None
        /\ last.k_neighbors >= 1)
        => /\ last.err = "none"
           /\ last.count = Len(last.mesh.vertices)

\* C16 (as claimed): calculate_tool_orientation on a zero-length normal
\* fails with InvalidGeometry and returns no quaternion.
C16_ZeroNormalRejected ==
    (last.op = "calculate_tool_orientation" /\ last.normal = <<0, 0, 0>>)
        => last.err = "InvalidGeometry"

SwapXY(points) == [i \in DOMAIN points |-> <<points[i][2], points[i][1], points[i][3]>>]

\* The point lists of a segment list, X and Y exchanged.
SwappedPointLists(paths) == [s \in DOMAIN paths |-> SwapXY(paths[s].points)]

\* C18 (as claimed): parallel planning at 90 degrees with a positive spacing
\* returns the segments parallel planning at 0 degrees returns on the mesh
\* with X and Y exchanged, coordinates exchanged back.
C18_NinetyMirrorsZero ==
    (/\ last.op = "generate_paths" /\ last.mesh # None
     /\ last.strategy = "parallel"
     /\ Get(last.kwargs, "angle", 0) = 90
     /\ Get(last.kwargs, "spacing", 7 * last.tool_diameter) > 0)
        => \E mirror \in GenerateParallelPath(SwapXY(last.mesh.vertices), 0,
                            Get(last.kwargs, "spacing", 7 * last.tool_diameter)) :
              /\ mirror.err = last.err
              /\ SwappedPointLists(mirror.paths)
                    = [s \in DOMAIN last.out |-> last.out[s].points]

\* A plan holding both stages, rough then fine, or the initial empty plan.
FullyFormedOrEmpty(plan) ==
    \/ plan = <<>>
    \/ /\ Len(plan) = 2
       /\ plan[1][1] = "rough"
       /\ plan[2][1] = "fine"

\* C19: generated_paths is always the initial empty plan or a plan holding
\* both the rough and the fine stage, and it changes only in a plan request
\* that succeeds, to the plan that request returns; a request that raises
\* part-way leaves the previous plan in place.
C19_PlanPublishedWhole ==
    /\ [](FullyFormedOrEmpty(generated_paths)
            /\ FullyFormedOrEmpty(GetGeneratedCodeData.paths))
    /\ [][generated_paths' # generated_paths
            => /\ last'.op = "generate_polishing_paths"
               /\ last'.err = "none"
               /\ last'.out = generated_paths']_vars

\* A plan request failed in its fine stage while an earlier plan was stored.
C19_Witness ==
    /\ last.op = "generate_polishing_paths"
    /\ last.err # "none"
    /\ "stage" \in DOMAIN last
    /\ generated_paths # <<>>

\* C20 (as claimed): when the rough stage of a plan request succeeds and its
\* fine stage then fails, the rough segments of that request remain
\* available from the facade afterwards.
C20_RoughKeptWhenFineFails ==
    (/\ last.op = "generate_polishing_paths"
     /\ last.err # "none"
     /\ "stage" \in DOMAIN last)
        => /\ HasKey(generated_paths, "rough")
           /\ Lookup(generated_paths, "rough")
                 = EnrichPathData(last.rough_paths, "rough", last.config)

\* Four vertices at the corners of a square bounding box in a plane Z = c.
IsFlatSquare(vertices) ==
    /\ Len(vertices) = 4
    /\ Cardinality(Column(vertices, 3)) = 1
    /\ LET xs == Column(vertices, 1)
           ys == Column(vertices, 2)
       IN  /\ Cardinality(xs) = 2 /\ Cardinality(ys) = 2
           /\ MaxOf(xs) - MinOf(xs) = MaxOf(ys) - MinOf(ys)
           /\ {<<vertices[i][1], vertices[i][2]>> : i \in DOMAIN vertices} = xs \X ys

\* C21 (as claimed): for a flat square mesh planned with strategy parallel
\* and spacing 5, every point of every emitted scan-line segment has a Y
\* that is the bounding box's minimum Y plus a multiple of the spacing and
\* lies within the bounding box.  Spacing 5 mm is 100 twentieths.
C21_ScanLinesOnSpacingGrid ==
    (/\ last.op = "generate_paths" /\ last.mesh # None
     /\ IsFlatSquare(last.mesh.vertices)
     /\ last.strategy = "parallel"
     /\ Get(last.kwargs, "angle", 0) = 0
     /\ Get(last.kwargs, "spacing", 7 * last.tool_diameter) = 100)
        => /\ last.err = "none"
           /\ LET min_y == ToTw(MinOf(Column(last.mesh.vertices, 2)))
                  max_y == ToTw(MaxOf(Column(last.mesh.vertices, 2)))
              IN  \A s \in DOMAIN last.out : \A i \in DOMAIN last.out[s].points :
                     LET y == ToTw(last.out[s].points[i][2])
                     IN  /\ (y - min_y) % 100 = 0
                         /\ min_y <= y /\ y <= max_y

\* C22: for 3 or more points, optimize_path_sequence outputs the first input
\* point first, and each later output point is, among the points not yet
\* output, one nearest to the previously output point, the one of smallest
\* input index when several are nearest.
C22_GreedyNearestFirstIndex ==
    (last.op = "optimize_path_sequence" /\ Len(last.points) >= 3)
        => LET p == last.points
               n == Len(p)
           IN  \E idx \in [1..n -> 1..n] :
                  /\ idx[1] = 1
                  /\ \A j \in 2..n :
                        LET unvisited == (1..n) \ {idx[k] : k \in 1..(j - 1)}
                            d == Dist2(p[idx[j - 1]], p[idx[j]])
                        IN  /\ idx[j] \in unvisited
                            /\ \A u \in unvisited :
                                  /\ d <= Dist2(p[idx[j - 1]], p[u])
                                  /\ d = Dist2(p[idx[j - 1]], p[u]) => idx[j] <= u
                  /\ last.out = [k \in 1..n |-> p[idx[k]]]

\* The sequencer has resolved a tie between two different points at the
\* same distance from the first one.
C22_Witness ==
    /\ last.op = "optimize_path_sequence"
    /\ Len(last.points) >= 3
    /\ \E i, j \in 2..Len(last.points) :
          /\ i < j
          /\ last.points[i] # last.points[j]
          /\ Dist2(last.points[1], last.points[i]) = Dist2(last.points[1], last.points[j])
          /\ \A u \in 2..Len(last.points) :
                Dist2(last.points[1], last.points[i]) <= Dist2(last.points[1], last.points[u])
          /\ \A u \in 2..(i - 1) :
                Dist2(last.points[1], last.points[i]) < Dist2(last.points[1], last.points[u])
          /\ last.out[2] = last.points[i]

\* C27: optimize_path_sequence is idempotent: applied to its own output it
\* returns that output, for lists with tied points as well.
C27_SequenceIdempotent ==
    last.op = "optimize_path_sequence_twice" => last.out = last.once

\* The sequencer was applied twice to a list of 3 or more points that it
\* reorders and in which two points are equally far from the first.
C27_Witness ==
    /\ last.op = "optimize_path_sequence_twice"
    /\ Len(last.points) >= 3
    /\ last.once # last.points
    /\ \E i, j \in 2..Len(last.points) :
          /\ last.points[i] # last.points[j]
          /\ Dist2(last.points[1], last.points[i]) = Dist2(last.points[1], last.points[j])

\* The k-th smallest element of a set of numbers.
Nth(S, k) == CHOOSE x \in S : Cardinality({y \in S : y < x}) = k - 1

\* The line numbers of the MoveL instructions of a stage's procedure.
StageMoves(text, stage) ==
    LET start == CHOOSE i \in DOMAIN text : text[i] = <<"PROC ", "Path_" \o stage, "()">>
        end == Nth({i \in DOMAIN text : i > start /\ IsEndProc(text[i])}, 1)
    IN  {i \in MoveLLines(text) : start < i /\ i < end}

\* The points of a stage of a plan in traversal order.
StagePoints(paths, stage) ==
    Flatten([g \in DOMAIN Lookup(paths, stage) |-> Lookup(paths, stage)[g].points])

\* C23: in each stage procedure the MoveL instructions are the plan's points
\* for that stage in traversal order, one MoveL per point, each referencing
\* the constant declared with that point's position.
C23_MovesFollowPlan ==
    last.op = "generate" =>
        LET text == last.text
            paths == Get(last.context, "paths", <<>>)
        IN  \A stage \in {"rough", "fine"} :
               HasKey(paths, stage) =>
                  LET moves == StageMoves(text, stage)
                      points == StagePoints(paths, stage)
                  IN  /\ Cardinality(moves) = Len(points)
                      /\ \A k \in DOMAIN points :
                            \E j \in RobtargetLines(text) :
                               /\ text[j][2] = text[Nth(moves, k)][2]
                               /\ text[j][4] = Fmt3(points[k].pos[1])
                               /\ text[j][6] = Fmt3(points[k].pos[2])
                               /\ text[j][8] = Fmt3(points[k].pos[3])
                      /\ \A k, m \in DOMAIN points :
                            k # m => text[Nth(moves, k)][2] # text[Nth(moves, m)][2]

\* A program for a facade plan whose rough stage has two segments, the
\* first with two points at different positions.
C23_Witness ==
    /\ last.op = "generate"
    /\ last.context.paths = generated_paths
    /\ HasKey(generated_paths, "rough")
    /\ Len(Lookup(generated_paths, "rough")) >= 2
    /\ Len(Lookup(generated_paths, "rough")[1].points) >= 2
    /\ Lookup(generated_paths, "rough")[1].points[1].pos
          # Lookup(generated_paths, "rough")[1].points[2].pos
    /\ Cardinality(StageMoves(last.text, "rough")) >= 4

\* C24 (as claimed): for a non-empty mesh and a positive step, adaptive
\* planning puts every mesh vertex, those at the maximum Z included, into
\* exactly one emitted segment, and emits no empty segment.  Stated on the
\* meshes of more than k_neighbors vertices.
C24_AdaptiveCoversAllVertices ==
    (/\ last.op = "generate_paths" /\ last.mesh # None
     /\ last.strategy = "adaptive"
     /\ Len(last.mesh.vertices) > K_NEIGHBORS
     /\ last.tool_diameter * Get(last.kwargs, "stepover", DefaultStepover) > 0)
        => /\ last.err = "none"
           /\ \A s \in DOMAIN last.out : last.out[s].points # <<>>
           /\ SameMultiset(Flatten([s \in DOMAIN last.out |-> last.out[s].points]),
                           last.mesh.vertices)

\* The vertices within half a spacing of the scan line y (twentieths).
NearLine(vertices, y, spacing) ==
    SelectSeq(vertices, LAMBDA v : 2 * ToTw(v[2]) - 2 * y < spacing
                                   /\ 2 * y - 2 * ToTw(v[2]) < spacing)

\* C25: in 0 degree parallel planning with positive spacing, the scan lines
\* run from the minimum Y in steps of spacing (below the maximum Y); each
\* emitted segment holds exactly the vertices within half a spacing of its
\* scan line, in non-decreasing X, and a scan line with no such vertex
\* emits no segment.
C25_ParallelSegmentsAreStrips ==
    (/\ last.op = "generate_paths" /\ last.mesh # None
     /\ last.mesh.vertices # <<>>
     /\ last.strategy = "parallel"
     /\ Get(last.kwargs, "angle", 0) = 0
     /\ Get(last.kwargs, "spacing", 7 * last.tool_diameter) > 0)
        => LET vertices == last.mesh.vertices
               spacing == Get(last.kwargs, "spacing", 7 * last.tool_diameter)
               min_y == ToTw(MinOf(Column(vertices, 2)))
               max_y == ToTw(MaxOf(Column(vertices, 2)))
               lines == {k \in 0..((max_y - min_y) \div spacing) :
                            /\ min_y + k * spacing < max_y
                            /\ NearLine(vertices, min_y + k * spacing, spacing) # <<>>}
           IN  /\ last.err = "none"
               /\ Len(last.out) = Cardinality(lines)
               /\ \A s \in DOMAIN last.out :
                     LET pts == last.out[s].points
                     IN  /\ SameMultiset(pts, NearLine(vertices,
                                min_y + Nth(lines, s) * spacing, spacing))
                         /\ \A i \in 1..(Len(pts) - 1) : pts[i][1] <= pts[i + 1][1]

\* A 0 degree parallel plan with two segments, one of them holding two
\* vertices of different X given in decreasing X by the mesh.
C25_Witness ==
    /\ last.op = "generate_paths" /\ last.mesh # None
    /\ last.strategy = "parallel"
    /\ Get(last.kwargs, "angle", 0) = 0
    /\ last.err = "none"
    /\ Len(last.out) >= 2
    /\ \E s \in DOMAIN last.out :
          /\ Len(last.out[s].points) >= 2
          /\ last.out[s].points[1][1] < last.out[s].points[2][1]
          /\ \E i, j \in DOMAIN last.mesh.vertices :
                /\ i < j
                /\ last.mesh.vertices[i] = last.out[s].points[2]
                /\ last.mesh.vertices[j] = last.out[s].points[1]

\* The line numbers of a stage's procedure, opener and ENDPROC excluded.
StageBody(text, stage) ==
    LET start == CHOOSE i \in DOMAIN text : text[i] = <<"PROC ", "Path_" \o stage, "()">>
        end == Nth({i \in DOMAIN text : i > start /\ IsEndProc(text[i])}, 1)
    IN  {i \in DOMAIN text : start < i /\ i < end}

\* C26: with enable_force_control set, the module defines
\* ActivateForceControl and DeactivateForceControl, and every stage
\* procedure calls ActivateForceControl before its first MoveL and
\* DeactivateForceControl after its last; with it not set, neither the
\* definitions nor any call appears in the program.
C26_ForceControlGated ==
    last.op = "generate" =>
        LET text == last.text
            paths == Get(last.context, "paths", <<>>)
            enabled == Get(Get(last.context, "params", EmptyDict),
                           "enable_force_control", FALSE)
            activate == <<"    ActivateForceControl;">>
            deactivate == <<"    DeactivateForceControl;">>
            def_on == <<"PROC ", "ActivateForceControl", "()">>
            def_off == <<"PROC ", "DeactivateForceControl", "()">>
        IN  IF enabled
            THEN /\ Cardinality(LinesEqual(text, DOMAIN text, def_on)) = 1
                 /\ Cardinality(LinesEqual(text, DOMAIN text, def_off)) = 1
                 /\ \A stage \in {"rough", "fine"} :
                       HasKey(paths, stage) =>
                          LET body == StageBody(text, stage)
                              on == LinesEqual(text, body, activate)
                              off == LinesEqual(text, body, deactivate)
                          IN  /\ Cardinality(on) = 1 /\ Cardinality(off) = 1
                              /\ \A a \in on, d \in off : a < d
                              /\ \A m \in body :
                                    IsMoveL(text[m]) =>
                                       /\ \A a \in on : a < m
                                       /\ \A d \in off : m < d
            ELSE \A i \in DOMAIN text :
                    text[i] \notin {activate, deactivate, def_on, def_off}

\* A program with force control for a plan whose two stages both move.
C26_Witness ==
    /\ last.op = "generate"
    /\ Get(Get(last.context, "params", EmptyDict), "enable_force_control", FALSE)
    /\ \A stage \in {"rough", "fine"} :
          /\ HasKey(Get(last.context, "paths", <<>>), stage)
          /\ \E m \in StageBody(last.text, stage) : IsMoveL(last.text[m])

\* C28 (as claimed): the plan get_generated_code_data hands out was computed
\* from the mesh that is loaded: once load_model has succeeded on a
\* different mesh, the plan with path points computed from the previous
\* mesh is no longer handed out.
C28_PlanBelongsToLoadedMesh ==
    [][(/\ last'.op = "load_model" /\ last'.ok
        /\ current_mesh' # current_mesh
        /\ PlanPointCount(generated_paths) > 0)
          => GetGeneratedCodeData'.paths # generated_paths]_vars

\* C29 (as claimed): load_model reports failure as (False, message, {}), and
\* whenever it returns False, current_mesh, mesh_metadata and
\* generated_paths are what they were before the call.
C29_FailedLoadChangesNothing ==
    [][(last'.op = "load_model" /\ ~last'.ok)
          => /\ last'.stats = EmptyDict
             /\ UNCHANGED <<current_mesh, mesh_metadata, generated_paths>>]_vars

\* C30 (as claimed): when get_generated_code_data is handed to generate, the
\* feed speed recorded on each path point of a stage equals the speed the
\* program declares for that stage (vRough / vFine), for every config the
\* plan was requested with.
C30_PointSpeedIsDeclaredSpeed ==
    (last.op = "generate" /\ Get(last.context, "paths", <<>>) = generated_paths)
        => \A s \in DOMAIN generated_paths :
              LET stage == generated_paths[s][1]
                  opener == IF stage = "rough" THEN "CONST speeddata vRough := ["
                            ELSE "CONST speeddata vFine := ["
              IN  \A g \in DOMAIN generated_paths[s][2] :
                     \A i \in DOMAIN generated_paths[s][2][g].points :
                        \E n \in DOMAIN last.text :
                           /\ last.text[n][1] = opener
                           /\ last.text[n][2]
                                 = ToString(generated_paths[s][2][g].points[i].speed)

====
